---------------------------- MODULE Spec2Model ----------------------------
(***************************************************************************)
(* Model of corec-tracker: the storage layer (db.js, in                    *)
(* src/unnamed/part_000 lines 219-549), the one-shot ingestion coordinator *)
(* fetchOccupancy (part_000 lines 551-677) and the long-running scheduler  *)
(* (src/src/scheduler.js).                                                 *)
(*                                                                         *)
(* The four tables are the persistent state.  A table with an              *)
(* AUTOINCREMENT key is a sequence of rows in id order; the locations      *)
(* table is a set of rows.  Every exported function of db.js is an         *)
(* operator over the tables, and an action that applies it.  The           *)
(* synchronous part of a cycle (everything after the awaited fetch) runs   *)
(* without yielding, so it is one action whose inputs are the response of  *)
(* the upstream API and the storage call, if any, that throws.             *)
(***************************************************************************)
EXTENDS Integers, Sequences, FiniteSets, TLC

(***************************************************************************)
(* Bounds of the model.                                                    *)
(***************************************************************************)
NumLocs == 2        \* location ids 1..NumLocs; a response holds at most that many records
MaxApiTs == 2       \* source-reported timestamps 1..MaxApiTs
NumPayloads == 2    \* distinct payloads the feed reports
MaxSteps == 2       \* ingestion cycles and direct calls of db.js in one behaviour
MaxCycles == 3      \* ingestion cycles in a behaviour that holds nothing else
MaxClock == 1       \* the clock runs over 0..MaxClock
Horizon == 8        \* the clock runs over 0..Horizon where the snapshot cadence is checked
MaxPending == 1     \* scheduler cycles awaiting their fetch
MaxOverlap == 2     \* the same, in the runs of the scheduler process alone
MaxSamples == 4     \* open readings of one location in one hour where getOptimalTimes is checked

(***************************************************************************)
(* Time.  The clock `now` counts units of Date.now(); datetime('now')      *)
(* stores whole seconds.  The scale is reduced: a second is SecondMs       *)
(* units and the snapshot interval (60 * 60 * 1000 ms in the source) is    *)
(* HourMs units, a whole number of seconds.                                *)
(***************************************************************************)
SecondMs == 3
HourMs == 6

\* datetime('now'): the current time truncated to whole seconds
Datetime(t) == t \div SecondMs

\* new Date(ts + 'Z').getTime(): a stored whole-second text back to ms
ParseTs(s) == s * SecondMs

(***************************************************************************)
(* Inbound records.  A record of the API is a TLA+ record with the field   *)
(* names of the feed.  A display name is a sequence of characters.         *)
(***************************************************************************)
PayloadTable ==
  << [LocationName |-> <<" ", "A", " ">>, TotalCapacity |-> 40, LastCount |-> 23,
      IsClosed |-> FALSE, FacilityId |-> 1, FacilityName |-> "CoRec",
      MinCapacityRange |-> 50, MaxCapacityRange |-> 80,
      MinColor |-> "green", MaxColor |-> "red"],
     [LocationName |-> <<"B">>, TotalCapacity |-> 0, LastCount |-> 2,
      IsClosed |-> TRUE, FacilityId |-> 2, FacilityName |-> "TREC",
      MinCapacityRange |-> 40, MaxCapacityRange |-> 70,
      MinColor |-> "blue", MaxColor |-> "orange"],
     [LocationName |-> <<"A", " ", "B">>, TotalCapacity |-> 2, LastCount |-> 3,
      IsClosed |-> FALSE, FacilityId |-> 3, FacilityName |-> "Pool",
      MinCapacityRange |-> 30, MaxCapacityRange |-> 60,
      MinColor |-> "white", MaxColor |-> "black"],
     [LocationName |-> <<" ">>, TotalCapacity |-> -1, LastCount |-> 1,
      IsClosed |-> FALSE, FacilityId |-> 4, FacilityName |-> "Gym",
      MinCapacityRange |-> 20, MaxCapacityRange |-> 90,
      MinColor |-> "grey", MaxColor |-> "pink"] >>

\* payload v; past the table the payloads repeat with a larger count
Payload(v) ==
  LET n == Len(PayloadTable)
      p == PayloadTable[((v - 1) % n) + 1]
  IN  [p EXCEPT !.LastCount = p.LastCount + ((v - 1) \div n)]

MkRecord(l, v, ts) ==
  LET p == Payload(v)
  IN  [LocationId |-> l, LocationName |-> p.LocationName,
       TotalCapacity |-> p.TotalCapacity, LastCount |-> p.LastCount,
       IsClosed |-> p.IsClosed, FacilityId |-> p.FacilityId,
       FacilityName |-> p.FacilityName,
       MinCapacityRange |-> p.MinCapacityRange,
       MaxCapacityRange |-> p.MaxCapacityRange,
       MinColor |-> p.MinColor, MaxColor |-> p.MaxColor,
       LastUpdatedDateAndTime |-> ts]

\* a record of the feed that lacks LocationName (undefined in JavaScript)
Nameless(l, ts) ==
  [LocationId |-> l, TotalCapacity |-> 8, LastCount |-> 1, IsClosed |-> FALSE,
   FacilityId |-> 1, FacilityName |-> "CoRec",
   MinCapacityRange |-> 50, MaxCapacityRange |-> 80,
   MinColor |-> "green", MaxColor |-> "red",
   LastUpdatedDateAndTime |-> ts]

Locs == 1..NumLocs

\* A response lists locations 1..m, one record each, all with the source
\* timestamp ts; location k reports payload v + k - 1; record `bad` (0: none)
\* lacks its LocationName.
Batch(m, v, ts, bad) ==
  [k \in 1..m |-> IF k = bad THEN Nameless(k, ts) ELSE MkRecord(k, v + k - 1, ts)]

Batches ==
  {Batch(m, v, ts, bad) :
     m \in 0..NumLocs, v \in 1..NumPayloads, ts \in 1..MaxApiTs, bad \in 0..NumLocs}

\* the records a direct call of db.js is given
Records ==
  {MkRecord(l, v, ts) : l \in Locs, v \in 1..(NumPayloads + NumLocs), ts \in 1..MaxApiTs}
  \cup {Nameless(l, ts) : l \in Locs, ts \in 1..MaxApiTs}

(***************************************************************************)
(* The handle of db.js: d is whether the module-level variable db holds a  *)
(* connection, h the number of connections constructed and not closed;     *)
(* opened / closed tell whether the call constructed or closed one.        *)
(***************************************************************************)
\* a getDb that constructs a connection on every call
getDbAlways(d, h) == [db |-> TRUE, handles |-> h + 1, opened |-> TRUE]

getDb(d, h) ==
  IF ~d THEN [db |-> TRUE, handles |-> h + 1, opened |-> TRUE]
  ELSE [db |-> d, handles |-> h, opened |-> FALSE]

closeDb(d, h) ==
  IF d THEN [db |-> FALSE, handles |-> h - 1, closed |-> TRUE]
  ELSE [db |-> d, handles |-> h, closed |-> FALSE]

\* the records behind the stores getOptimalTimes is applied to: location l
\* reports `count` people of a capacity of 100 at the source time ts
OptRecord(l, ts, count, closed) ==
  [MkRecord(l, l, ts) EXCEPT !.TotalCapacity = 100, !.LastCount = count,
                             !.IsClosed = closed]

(***************************************************************************)
(* The storage engine (db.js).  A value S = [locations, readings,          *)
(* snapshots, fetch_log] is the content of the database file.  An          *)
(* operation returns [S, err, ret]: the new content, the error it throws   *)
(* ("none" when it returns normally) and its return value.                 *)
(***************************************************************************)
NoErr == "none"

RECURSIVE TrimLeft(_)
TrimLeft(s) == IF s # <<>> /\ Head(s) = " " THEN TrimLeft(Tail(s)) ELSE s

RECURSIVE TrimRight(_)
TrimRight(s) ==
  IF s # <<>> /\ s[Len(s)] = " " THEN TrimRight(SubSeq(s, 1, Len(s) - 1)) ELSE s

\* String.prototype.trim
Trim(s) == TrimRight(TrimLeft(s))

(***************************************************************************)
(* JavaScript Numbers are IEEE 754 binary64 values.  A positive Number is  *)
(* [hi, mid, lo, e]: its 53-bit significand hi * 2^36 + mid * 2^18 + lo    *)
(* in three limbs (2^16 <= hi < 2^17; mid, lo < 2^18) and the exponent e   *)
(* of the leading bit, so that its value is significand * 2^(e - 52).      *)
(* Every operation rounds its exact result to the nearest Number, to the   *)
(* one with an even significand on a tie.                                  *)
(***************************************************************************)
Limb == 2^18

\* a significand with a guard bit and a sticky flag for what lies below it,
\* rounded to the nearest Number, ties to even
RoundNearestEven(hi, mid, lo, guard, sticky, e) ==
  LET up == guard = 1 /\ (sticky \/ (lo % 2) = 1)
      lo1 == IF up THEN lo + 1 ELSE lo
      mid1 == mid + (lo1 \div Limb)
      hi1 == hi + (mid1 \div Limb)
  IN  IF hi1 = 2^17
        THEN [hi |-> 2^16, mid |-> 0, lo |-> 0, e |-> e + 1]
        ELSE [hi |-> hi1, mid |-> mid1 % Limb, lo |-> lo1 % Limb, e |-> e]

\* <<num', den', e>> with num / den = num' / den' * 2^e and 1 <= num' / den' < 2
RECURSIVE Normalize(_, _, _)
Normalize(num, den, e) ==
  IF num < den THEN Normalize(2 * num, den, e - 1)
  ELSE IF num >= 2 * den THEN Normalize(num, 2 * den, e + 1)
  ELSE <<num, den, e>>

\* a / b for integers 1 <= a, b < 2^12: long division, 16 + 18 + 18 bits of
\* the fraction, then the guard bit
NumberDiv(a, b) ==
  LET n == Normalize(a, b, 0)
      den == n[2]
      r0 == n[1] - den
      r1 == (r0 * 2^16) % den
      r2 == (r1 * Limb) % den
      r3 == (r2 * Limb) % den
  IN  RoundNearestEven(2^16 + ((r0 * 2^16) \div den), (r1 * Limb) \div den,
                       (r2 * Limb) \div den,
                       IF 2 * r3 >= den THEN 1 ELSE 0,
                       (2 * r3) % den > 0, n[3])

\* x * k for a Number x > 0 and an integer 1 <= k < 2^12
NumberMul(x, k) ==
  LET t3 == x.lo * k
      t2 == (x.mid * k) + (t3 \div Limb)
      t1 == (x.hi * k) + (t2 \div Limb)
      p2 == t2 % Limb
      p3 == t3 % Limb
      s == CHOOSE i \in 0..12 : 2^16 <= (t1 \div (2^i)) /\ (t1 \div (2^i)) < 2^17
      dropped == p3 % (2^s)
  IN  IF s = 0 THEN [hi |-> t1, mid |-> p2, lo |-> p3, e |-> x.e]
      ELSE RoundNearestEven(t1 \div (2^s),
                            (p2 \div (2^s)) + ((t1 % (2^s)) * (2^(18 - s))),
                            (p3 \div (2^s)) + ((p2 % (2^s)) * (2^(18 - s))),
                            dropped \div (2^(s - 1)),
                            (dropped % (2^(s - 1))) > 0, x.e + s)

\* Math.round(x) for a Number 0 < x < 2^17: the nearest integer, the larger
\* one when x lies halfway
MathRound(x) ==
  IF x.e < -1 THEN 0
  ELSE IF x.e = -1 THEN 1
  ELSE IF x.e = 16 THEN x.hi + (x.mid \div (2^17))
  ELSE (x.hi \div (2^(16 - x.e))) + ((x.hi \div (2^(15 - x.e))) % 2)

\* (count / capacity) * 100 rounded, for capacity > 0 and count >= 0
RoundedPercent(count, capacity) ==
  IF count = 0 THEN 0 ELSE MathRound(NumberMul(NumberDiv(count, capacity), 100))

\* RoundedPercent over the counts and capacities of the feed, computed once
PercentOf ==
  [count \in {r.LastCount : r \in Records} \cup {0, 1},
   capacity \in ({r.TotalCapacity : r \in Records} \cup {100}) \cap (1..(2^12 - 1))
     |-> RoundedPercent(count, capacity)]

\* the percentage insertReading stores
Pct(location) ==
  IF location.TotalCapacity > 0
    THEN PercentOf[location.LastCount, location.TotalCapacity]
    ELSE 0

\* AUTOINCREMENT: one more than the largest id the table has held
NextId(tbl) == IF tbl = <<>> THEN 1 ELSE tbl[Len(tbl)].id + 1

LocationIds(S) == {row.location_id : row \in S.locations}

LocationRow(location, created, t) ==
  [location_id |-> location.LocationId,
   location_name |-> Trim(location.LocationName),
   total_capacity |-> location.TotalCapacity,
   facility_id |-> location.FacilityId,
   facility_name |-> location.FacilityName,
   min_capacity_range |-> location.MinCapacityRange,
   max_capacity_range |-> location.MaxCapacityRange,
   min_color |-> location.MinColor,
   max_color |-> location.MaxColor,
   created_at |-> created,
   updated_at |-> Datetime(t)]

\* an INSERT OR IGNORE in place of the upsert: a stored row is kept as it is
upsertLocationIgnore(S, location, t) ==
  IF "LocationName" \notin DOMAIN location
    THEN [S |-> S, err |-> "TypeError", ret |-> FALSE]
  ELSE IF location.LocationId \in LocationIds(S)
    THEN [S |-> S, err |-> NoErr, ret |-> FALSE]
  ELSE [S |-> [S EXCEPT !.locations =
                 @ \cup {LocationRow(location, Datetime(t), t)}],
        err |-> NoErr, ret |-> FALSE]

\* INSERT ... ON CONFLICT(location_id) DO UPDATE; location.LocationName.trim()
\* throws a TypeError when the record has no LocationName
upsertLocation(S, location, t) ==
  IF "LocationName" \notin DOMAIN location
    THEN [S |-> S, err |-> "TypeError", ret |-> FALSE]
    ELSE
      LET old == {row \in S.locations : row.location_id = location.LocationId}
          created == IF old = {} THEN Datetime(t)
                     ELSE (CHOOSE row \in old : TRUE).created_at
      IN  [S |-> [S EXCEPT !.locations =
                     (S.locations \ old) \cup {LocationRow(location, created, t)}],
           err |-> NoErr, ret |-> FALSE]

\* a unique index on (location_id, ts), the ingestion time, in place of
\* (location_id, api_ts)
HasReadingIngestTs(S, loc, ts) ==
  \E i \in 1..Len(S.readings) :
     S.readings[i].location_id = loc /\ S.readings[i].ts = ts

HasReading(S, loc, ts) ==
  \E i \in 1..Len(S.readings) :
     S.readings[i].location_id = loc /\ S.readings[i].api_ts = ts

ReadingRow(S, location, t) ==
  [id |-> NextId(S.readings),
   location_id |-> location.LocationId,
   last_count |-> location.LastCount,
   capacity |-> location.TotalCapacity,
   pct |-> Pct(location),
   is_closed |-> IF location.IsClosed THEN 1 ELSE 0,
   api_ts |-> location.LastUpdatedDateAndTime,
   ts |-> Datetime(t)]

\* a plain INSERT into a table without idx_unique_reading
insertReadingNoIndex(S, location, t, fk) ==
  IF fk /\ location.LocationId \notin LocationIds(S)
    THEN [S |-> S, err |-> "SqliteError", ret |-> FALSE]
  ELSE [S |-> [S EXCEPT !.readings = Append(@, ReadingRow(S, location, t))],
        err |-> NoErr, ret |-> TRUE]

\* an INSERT OR REPLACE: the stored row of the key gives way to the new one
insertReadingReplace(S, location, t, fk) ==
  IF fk /\ location.LocationId \notin LocationIds(S)
    THEN [S |-> S, err |-> "SqliteError", ret |-> FALSE]
  ELSE LET kept == SelectSeq(S.readings,
                     LAMBDA row : ~(row.location_id = location.LocationId
                                    /\ row.api_ts = location.LastUpdatedDateAndTime))
       IN  [S |-> [S EXCEPT !.readings = Append(kept, ReadingRow(S, location, t))],
            err |-> NoErr, ret |-> TRUE]

\* INSERT OR IGNORE INTO readings: a row whose (location_id, api_ts) is stored
\* is skipped (idx_unique_reading); OR IGNORE does not cover the FOREIGN KEY
\* of line 261, which fails the statement when foreign keys are enforced (fk)
insertReading(S, location, t, fk) ==
  IF HasReading(S, location.LocationId, location.LastUpdatedDateAndTime)
    THEN [S |-> S, err |-> NoErr, ret |-> FALSE]
  ELSE IF fk /\ location.LocationId \notin LocationIds(S)
    THEN [S |-> S, err |-> "SqliteError", ret |-> FALSE]
  ELSE [S |-> [S EXCEPT !.readings = Append(@, ReadingRow(S, location, t))],
        err |-> NoErr, ret |-> TRUE]

RECURSIVE TotalPeople(_)
TotalPeople(data) ==
  IF data = <<>> THEN 0
  ELSE (IF Head(data).IsClosed THEN 0 ELSE Head(data).LastCount)
       + TotalPeople(Tail(data))

\* a snapshot table that keeps its latest row only
saveSnapshotReplace(S, data, t) ==
  [S |-> [S EXCEPT !.snapshots =
            <<[id |-> NextId(S.snapshots), ts |-> Datetime(t),
               data |-> data, location_count |-> Len(data),
               total_people |-> TotalPeople(data)]>>],
   err |-> NoErr, ret |-> FALSE]

\* the data column holds JSON.stringify(data): the batch itself here
saveSnapshot(S, data, t) ==
  [S |-> [S EXCEPT !.snapshots =
            Append(@, [id |-> NextId(S.snapshots), ts |-> Datetime(t),
                       data |-> data, location_count |-> Len(data),
                       total_people |-> TotalPeople(data)])],
   err |-> NoErr, ret |-> FALSE]

\* SELECT ts FROM snapshots ORDER BY id DESC LIMIT 1, against Date.now()
shouldSaveSnapshot(S, t) ==
  IF S.snapshots = <<>> THEN TRUE
  ELSE ParseTs(S.snapshots[Len(S.snapshots)].ts) < t - HourMs

logFetch(S, success, locationsFetched, newReadings, errorMsg, t) ==
  [S |-> [S EXCEPT !.fetch_log =
            Append(@, [id |-> NextId(S.fetch_log), ts |-> Datetime(t),
                       success |-> IF success THEN 1 ELSE 0,
                       locations_fetched |-> locationsFetched,
                       new_readings |-> newReadings,
                       error_msg |-> errorMsg])],
   err |-> NoErr, ret |-> FALSE]

\* the counters of getReadingStats
getReadingStats(S) ==
  [total_readings |-> Len(S.readings),
   locations_tracked |->
      Cardinality({S.readings[i].location_id : i \in 1..Len(S.readings)}),
   total_snapshots |-> Len(S.snapshots),
   successful_fetches |->
      Cardinality({i \in 1..Len(S.fetch_log) : S.fetch_log[i].success = 1}),
   failed_fetches |->
      Cardinality({i \in 1..Len(S.fetch_log) : S.fetch_log[i].success = 0})]

(***************************************************************************)
(* The reporting queries of db.js.  The calendar is reduced like the       *)
(* clock: SlotsPerHour source timestamps fall in one hour, a day has       *)
(* HoursPerDay hours and a week DaysPerWeek days.  An average rounded to   *)
(* one decimal is held in tenths.  Where ORDER BY leaves rows with equal   *)
(* keys in no defined order, a query is the set of the results it may      *)
(* return.                                                                 *)
(***************************************************************************)
SlotsPerHour == 4
HoursPerDay == 2
DaysPerWeek == 2

\* CAST(strftime('%H', api_ts) AS INTEGER), CAST(strftime('%w', api_ts) ...)
HourOf(api_ts) == (api_ts \div SlotsPerHour) % HoursPerDay

DayOfWeek(api_ts) == (api_ts \div (SlotsPerHour * HoursPerDay)) % DaysPerWeek

\* date(ts) of a stored whole-second time
DateOf(ts) == ts \div (HoursPerDay * (HourMs \div SecondMs))

RECURSIVE SumOver(_, _)
SumOver(I, f) ==
  IF I = {} THEN 0
  ELSE LET i == CHOOSE j \in I : TRUE IN f[i] + SumOver(I \ {i}, f)

MinOver(I, f) == CHOOSE m \in {f[i] : i \in I} : \A i \in I : m <= f[i]

MaxOver(I, f) == CHOOSE m \in {f[i] : i \in I} : \A i \in I : m >= f[i]

\* ROUND(AVG(x), 1) in tenths and ROUND(AVG(x), 0), for a sum that is not
\* negative: SQLite rounds the half away from zero
RoundAvg1(sum, n) == ((20 * sum) + n) \div (2 * n)

RoundAvg0(sum, n) == ((2 * sum) + n) \div (2 * n)

\* the sequences that list the elements of I by ascending key, rows of
\* equal key in any order
RECURSIVE Orderings(_, _)
Orderings(I, key) ==
  IF I = {} THEN {<<>>}
  ELSE UNION {{<<i>> \o s : s \in Orderings(I \ {i}, key)} :
                i \in {j \in I : \A k \in I : key[j] <= key[k]}}

\* no locationName given: null, undefined or the empty string
NoName == <<>>

\* LIKE folds the case of ASCII letters
Upper(c) == IF c = "a" THEN "A" ELSE IF c = "b" THEN "B" ELSE c

\* location_name LIKE '%' || pattern || '%'
Like(name, pattern) ==
  \E k \in 0..(Len(name) - Len(pattern)) :
     \A j \in 1..Len(pattern) : Upper(name[k + j]) = Upper(pattern[j])

\* the Location row a Reading row joins with, as a set (empty: none)
Joined(S, r) == {l \in S.locations : l.location_id = r.location_id}

\* the order of two display names under the BINARY collation
CharCode(c) == IF c = " " THEN 32 ELSE IF c = "A" THEN 65 ELSE 66

RECURSIVE NameRank(_)
NameRank(name) ==
  IF name = <<>> THEN 0
  ELSE CharCode(name[Len(name)]) - 31 + (64 * NameRank(SubSeq(name, 1, Len(name) - 1)))

\* a query that keeps each location's Reading row of smallest id
getLatestReadingsFirst(S) ==
  LET R == S.readings
      I == {i \in 1..Len(R) :
              /\ Joined(S, R[i]) # {}
              /\ \A j \in 1..Len(R) :
                    R[j].location_id = R[i].location_id => R[j].id >= R[i].id}
      Row(i) == LET l == CHOOSE l \in Joined(S, R[i]) : TRUE
                IN  [location_id |-> l.location_id,
                     location_name |-> l.location_name,
                     min_capacity_range |-> l.min_capacity_range,
                     max_capacity_range |-> l.max_capacity_range,
                     count |-> R[i].last_count, capacity |-> R[i].capacity,
                     percentage |-> R[i].pct, is_closed |-> R[i].is_closed,
                     api_timestamp |-> R[i].api_ts, fetched_at |-> R[i].ts]
  IN  {[k \in 1..Len(s) |-> Row(s[k])] :
         s \in Orderings(I, [i \in I |-> 0 - R[i].pct])}

\* getLatestReadings: for each location the Reading row of largest id,
\* joined with its Location row, by descending percentage
getLatestReadings(S) ==
  LET R == S.readings
      I == {i \in 1..Len(R) :
              /\ Joined(S, R[i]) # {}
              /\ \A j \in 1..Len(R) :
                    R[j].location_id = R[i].location_id => R[j].id <= R[i].id}
      Row(i) == LET l == CHOOSE l \in Joined(S, R[i]) : TRUE
                IN  [location_id |-> l.location_id,
                     location_name |-> l.location_name,
                     min_capacity_range |-> l.min_capacity_range,
                     max_capacity_range |-> l.max_capacity_range,
                     count |-> R[i].last_count, capacity |-> R[i].capacity,
                     percentage |-> R[i].pct, is_closed |-> R[i].is_closed,
                     api_timestamp |-> R[i].api_ts, fetched_at |-> R[i].ts]
  IN  {[k \in 1..Len(s) |-> Row(s[k])] :
         s \in Orderings(I, [i \in I |-> 0 - R[i].pct])}

\* the open Reading rows that join a Location row whose name passes the
\* filter
OpenReadings(S, locationName) ==
  {i \in 1..Len(S.readings) :
     /\ S.readings[i].is_closed = 0
     /\ \E l \in Joined(S, S.readings[i]) :
           locationName = NoName \/ Like(l.location_name, locationName)}

\* the aggregates of one group of Reading rows
Aggregates(S, G) ==
  LET R == S.readings
      pct == [i \in G |-> R[i].pct]
      cnt == [i \in G |-> R[i].last_count]
      n == Cardinality(G)
  IN  [avg_pct |-> RoundAvg1(SumOver(G, pct), n),
       avg_count |-> RoundAvg0(SumOver(G, cnt), n),
       min_pct |-> MinOver(G, pct), max_pct |-> MaxOver(G, pct),
       samples |-> n]

\* GROUP BY l.location_id, day_of_week, hour over the open readings
OptimalGroups(S, locationName) ==
  LET R == S.readings
  IN  {<<R[i].location_id, DayOfWeek(R[i].api_ts), HourOf(R[i].api_ts)>> :
         i \in OpenReadings(S, locationName)}

OptimalMembers(S, locationName, g) ==
  {i \in OpenReadings(S, locationName) :
     /\ S.readings[i].location_id = g[1]
     /\ DayOfWeek(S.readings[i].api_ts) = g[2]
     /\ HourOf(S.readings[i].api_ts) = g[3]}

OptimalRow(S, locationName, g) ==
  LET l == CHOOSE l \in S.locations : l.location_id = g[1]
      a == Aggregates(S, OptimalMembers(S, locationName, g))
  IN  [location_name |-> l.location_name, total_capacity |-> l.total_capacity,
       day_of_week |-> g[2], hour |-> g[3], avg_pct |-> a.avg_pct,
       avg_count |-> a.avg_count, min_pct |-> a.min_pct,
       max_pct |-> a.max_pct, samples |-> a.samples]

\* LIMIT n: the first n rows, every row when n is negative
Limit(s, n) == IF n < 0 \/ n >= Len(s) THEN s ELSE SubSeq(s, 1, n)

\* a HAVING clause that keeps every group
HavingAny(samples) == TRUE

\* an ORDER BY avg_pct DESC
OrderKeyDesc(S, G) == 0 - Aggregates(S, G).avg_pct

\* HAVING samples >= 2
Having(samples) == samples >= 2

\* ORDER BY avg_pct ASC: avg_pct is the alias of ROUND(AVG(r.pct), 1)
OrderKey(S, G) == Aggregates(S, G).avg_pct

\* getOptimalTimes: the groups of at least 2 samples by ascending rounded
\* average, cut to limit rows
getOptimalTimes(S, locationName, limit) ==
  LET Q == {g \in OptimalGroups(S, locationName) :
              Having(Cardinality(OptimalMembers(S, locationName, g)))}
      key == [g \in Q |-> OrderKey(S, OptimalMembers(S, locationName, g))]
  IN  {[k \in 1..Len(Limit(s, limit)) |-> OptimalRow(S, locationName, s[k])] :
         s \in Orderings(Q, key)}

\* a query whose closed-flag test is lost when no name is given
HourlyReadingsFiltered(S, locationName) ==
  {i \in 1..Len(S.readings) :
     \E l \in Joined(S, S.readings[i]) :
        IF locationName = NoName THEN TRUE
        ELSE Like(l.location_name, locationName) /\ S.readings[i].is_closed = 0}

\* the rows getHourlyAverages aggregates.  Without a name the text reads
\* JOIN locations l ON r.location_id = l.location_id AND r.is_closed = 0:
\* the test is part of the join condition of an inner join; with a name it
\* reads WHERE l.location_name LIKE ? AND r.is_closed = 0
HourlyReadings(S, locationName) ==
  {i \in 1..Len(S.readings) :
     \E l \in Joined(S, S.readings[i]) :
        IF locationName = NoName THEN S.readings[i].is_closed = 0
        ELSE Like(l.location_name, locationName) /\ S.readings[i].is_closed = 0}

\* getHourlyAverages: as above, grouped by l.location_name, every group
\* kept, by name, day and hour
getHourlyAverages(S, locationName) ==
  LET R == S.readings
      I == HourlyReadings(S, locationName)
      NameOf(i) == (CHOOSE l \in Joined(S, R[i]) : TRUE).location_name
      Q == {<<NameOf(i), DayOfWeek(R[i].api_ts), HourOf(R[i].api_ts)>> : i \in I}
      M(g) == {i \in I : /\ NameOf(i) = g[1]
                         /\ DayOfWeek(R[i].api_ts) = g[2]
                         /\ HourOf(R[i].api_ts) = g[3]}
      key == [g \in Q |-> (((NameRank(g[1]) * DaysPerWeek) + g[2]) * HoursPerDay)
                            + g[3]]
      Row(g) == LET a == Aggregates(S, M(g))
                IN  [location_name |-> g[1], day_of_week |-> g[2],
                     hour |-> g[3], avg_pct |-> a.avg_pct,
                     avg_count |-> a.avg_count, min_pct |-> a.min_pct,
                     max_pct |-> a.max_pct, samples |-> a.samples]
  IN  {[k \in 1..Len(s) |-> Row(s[k])] : s \in Orderings(Q, key)}

\* getRecentReadings: the Reading rows of one location stored in the last
\* `hours` hours, by ingestion time
getRecentReadings(S, locationId, hours, t) ==
  LET R == S.readings
      I == {i \in 1..Len(R) :
              /\ R[i].location_id = locationId
              /\ R[i].ts >= Datetime(t) - (hours * (HourMs \div SecondMs))}
      Row(i) == [last_count |-> R[i].last_count, capacity |-> R[i].capacity,
                 pct |-> R[i].pct, is_closed |-> R[i].is_closed,
                 api_ts |-> R[i].api_ts, ts |-> R[i].ts]
  IN  {[k \in 1..Len(s) |-> Row(s[k])] :
         s \in Orderings(I, [i \in I |-> R[i].ts])}

\* getDailyStats: per day of ingestion over the last `days` days, the
\* latest day first
getDailyStats(S, days, t) ==
  LET R == S.readings
      I == {i \in 1..Len(R) :
              R[i].ts >= Datetime(t)
                           - (days * HoursPerDay * (HourMs \div SecondMs))}
      Q == {DateOf(R[i].ts) : i \in I}
      M(d) == {i \in I : DateOf(R[i].ts) = d}
      Row(d) == [date |-> d, readings |-> Cardinality(M(d)),
                 locations |-> Cardinality({R[i].location_id : i \in M(d)}),
                 avg_pct |-> Aggregates(S, M(d)).avg_pct,
                 max_pct |-> Aggregates(S, M(d)).max_pct]
  IN  {[k \in 1..Len(s) |-> Row(s[k])] :
         s \in Orderings(Q, [d \in Q |-> 0 - d])}

\* getDataSize: the row counts of the four tables
getDataSize(S) ==
  [readings |-> Len(S.readings), locations |-> Cardinality(S.locations),
   snapshots |-> Len(S.snapshots), fetch_logs |-> Len(S.fetch_log)]

\* a schema set up with DROP TABLE and CREATE TABLE
initSchemaRecreate(S) ==
  [locations |-> {}, readings |-> <<>>, snapshots |-> <<>>, fetch_log |-> <<>>]

\* initSchema: CREATE TABLE / INDEX IF NOT EXISTS, then five ALTER TABLE
\* ... ADD COLUMN statements for columns the CREATE TABLE above lists
\* already: each throws "duplicate column name", which is caught
initSchema(S) == S

\* LIMIT of getOptimalTimes when the caller passes none
DefaultLimit == 20

(***************************************************************************)
(* The ingestion coordinators.  A response of the upstream API is          *)
(* [kind, data]: the fetch rejects ("neterr"), the status is not 2xx       *)
(* ("http"), the body is not JSON ("badjson"), the JSON is not an array    *)
(* ("nonarray"), or it is the array data ("array").  A fault names the     *)
(* storage call of the cycle that throws: opening the store ("getDb"),     *)
(* the INSERT of record k ("insert"), the snapshot bookkeeping             *)
(* ("snapshot"), the success entry ("log") or the statistics query         *)
(* ("stats").                                                              *)
(***************************************************************************)
NoFault == [at |-> "none", k |-> 0]

Faults ==
  {NoFault} \cup {[at |-> a, k |-> 0] : a \in {"getDb", "snapshot", "log", "stats"}}
            \cup {[at |-> "insert", k |-> i] : i \in 1..NumLocs}

SchedFaults == {f \in Faults : f.at \in {"none", "getDb", "insert", "stats"}}

Resps ==
  {[kind |-> c, data |-> <<>>] : c \in {"neterr", "http", "badjson", "nonarray"}}
  \cup {[kind |-> "array", data |-> b] : b \in Batches}

RespError(kind) ==
  CASE kind = "neterr" -> "fetch failed"
    [] kind = "http" -> "HTTP"
    [] kind = "badjson" -> "SyntaxError"
    [] kind = "nonarray" -> "Invalid API response: expected array"
    [] OTHER -> NoErr

\* F applied to the value of v, which is computed once
Bind(v, F(_)) == CHOOSE y \in {F(x) : x \in {v}} : TRUE

\* a loop body that inserts the reading before it upserts the location
StoreRecordInsertFirst(st, location, faulty, t, fk) ==
  Bind(IF faulty THEN [S |-> st.S, err |-> "SqliteError", ret |-> FALSE]
       ELSE insertReading(st.S, location, t, fk),
       LAMBDA r :
         IF r.err # NoErr THEN [st EXCEPT !.S = r.S, !.err = r.err]
         ELSE Bind(upsertLocation(r.S, location, t),
                   LAMBDA u :
                     [S |-> u.S,
                      newReadings |-> st.newReadings + (IF r.ret THEN 1 ELSE 0),
                      updatedLocations |-> st.updatedLocations + 1,
                      err |-> u.err]))

\* one pass of the loop body of fetchOccupancy; st = [S, newReadings,
\* updatedLocations, err], faulty: the INSERT of this record throws
StoreRecord(st, location, faulty, t, fk) ==
  LET u == upsertLocation(st.S, location, t)
  IN  IF u.err # NoErr THEN [st EXCEPT !.err = u.err]
      ELSE Bind(IF faulty THEN [S |-> u.S, err |-> "SqliteError", ret |-> FALSE]
                ELSE Bind(u.S, LAMBDA S1 : insertReading(S1, location, t, fk)),
                LAMBDA r :
                  [S |-> r.S,
                   newReadings |-> st.newReadings + (IF r.ret THEN 1 ELSE 0),
                   updatedLocations |-> st.updatedLocations + 1,
                   err |-> r.err])

\* the loop of fetchOccupancy from record k on
RECURSIVE StoreLoop(_, _, _, _, _, _)
StoreLoop(st, data, k, fault, t, fk) ==
  IF k > Len(data) \/ st.err # NoErr THEN st
  ELSE Bind(StoreRecord(st, data[k], fault = [at |-> "insert", k |-> k], t, fk),
            LAMBDA st1 : StoreLoop(st1, data, k + 1, fault, t, fk))

\* after the loop: the snapshot, the success entry and the statistics
\* query; [S, err, newReadings, loopDone]
FetchTail(st, data, fault, t) ==
  IF fault.at = "snapshot"
    THEN [S |-> st.S, err |-> "SqliteError", newReadings |-> st.newReadings,
          loopDone |-> TRUE]
  ELSE Bind(IF shouldSaveSnapshot(st.S, t) THEN saveSnapshot(st.S, data, t).S
            ELSE st.S,
            LAMBDA s1 :
              IF fault.at = "log"
                THEN [S |-> s1, err |-> "SqliteError",
                      newReadings |-> st.newReadings, loopDone |-> TRUE]
                ELSE [S |-> logFetch(s1, TRUE, Len(data), st.newReadings,
                                     NoErr, t).S,
                      err |-> IF fault.at = "stats" THEN "SqliteError" ELSE NoErr,
                      newReadings |-> st.newReadings, loopDone |-> TRUE])

\* a try block whose loop is one transaction, rolled back on an error
FetchTryRollback(S, resp, fault, t, fk) ==
  IF resp.kind # "array"
    THEN [S |-> S, err |-> RespError(resp.kind), newReadings |-> 0, loopDone |-> FALSE]
  ELSE IF fault.at = "getDb"
    THEN [S |-> S, err |-> "SqliteError", newReadings |-> 0, loopDone |-> FALSE]
  ELSE Bind(StoreLoop([S |-> S, newReadings |-> 0, updatedLocations |-> 0,
                       err |-> NoErr], resp.data, 1, fault, t, fk),
            LAMBDA st :
              IF st.err # NoErr
                THEN [S |-> S, err |-> st.err, newReadings |-> 0,
                      loopDone |-> FALSE]
                ELSE FetchTail(st, resp.data, fault, t))

\* the try block of fetchOccupancy: [S, err, newReadings, loopDone]
FetchTry(S, resp, fault, t, fk) ==
  IF resp.kind # "array"
    THEN [S |-> S, err |-> RespError(resp.kind), newReadings |-> 0, loopDone |-> FALSE]
  ELSE IF fault.at = "getDb"
    THEN [S |-> S, err |-> "SqliteError", newReadings |-> 0, loopDone |-> FALSE]
  ELSE Bind(StoreLoop([S |-> S, newReadings |-> 0, updatedLocations |-> 0,
                       err |-> NoErr], resp.data, 1, fault, t, fk),
            LAMBDA st :
              IF st.err # NoErr
                THEN [S |-> st.S, err |-> st.err, newReadings |-> st.newReadings,
                      loopDone |-> FALSE]
                ELSE FetchTail(st, resp.data, fault, t))

\* the message of the error thrown by a failure entry that cannot be written
LogError == "SqliteError: fetch_log"

\* a catch block that reports the error of its own failed log write
fetchOccupancyMasking(S, resp, fault, logFail, t, fk) ==
  Bind(FetchTry(S, resp, fault, t, fk),
       LAMBDA b :
         IF b.err = NoErr
           THEN [S |-> b.S, success |-> TRUE, newReadings |-> b.newReadings,
                 error |-> NoErr, loopDone |-> b.loopDone, logFailed |-> FALSE]
           ELSE [S |-> IF logFail \/ fault.at = "getDb" THEN b.S
                       ELSE logFetch(b.S, FALSE, 0, 0, b.err, t).S,
                 success |-> FALSE, newReadings |-> b.newReadings,
                 error |-> IF logFail \/ fault.at = "getDb" THEN LogError
                           ELSE b.err,
                 loopDone |-> b.loopDone,
                 logFailed |-> logFail \/ fault.at = "getDb"])

\* fetchOccupancy: the try block, then on an error the best-effort failure
\* entry (logFail: that write throws too, and is swallowed); the store
\* that could not be opened cannot take the failure entry either
fetchOccupancy(S, resp, fault, logFail, t, fk) ==
  Bind(FetchTry(S, resp, fault, t, fk),
       LAMBDA b :
         IF b.err = NoErr
           THEN [S |-> b.S, success |-> TRUE, newReadings |-> b.newReadings,
                 error |-> NoErr, loopDone |-> b.loopDone, logFailed |-> FALSE]
           ELSE [S |-> IF logFail \/ fault.at = "getDb" THEN b.S
                       ELSE logFetch(b.S, FALSE, 0, 0, b.err, t).S,
                 success |-> FALSE, newReadings |-> b.newReadings,
                 error |-> b.err, loopDone |-> b.loopDone,
                 logFailed |-> logFail \/ fault.at = "getDb"])

\* the status the one-shot process exits with on the result of fetchOccupancy
exitStatus(result) == IF result.success THEN 0 ELSE 1

\* one pass of the loop body of fetchAndStore: an error of insertReading is
\* swallowed and newReadings is incremented whenever insertReading returns
SchedRecord(st, location, faulty, t, fk) ==
  LET u == upsertLocation(st.S, location, t)
  IN  IF u.err # NoErr THEN [st EXCEPT !.err = u.err]
      ELSE Bind(IF faulty THEN [S |-> u.S, err |-> "SqliteError", ret |-> FALSE]
                ELSE Bind(u.S, LAMBDA S1 : insertReading(S1, location, t, fk)),
                LAMBDA r :
                  [S |-> r.S,
                   newReadings |-> st.newReadings
                                     + (IF r.err = NoErr THEN 1 ELSE 0),
                   updatedLocations |-> st.updatedLocations + 1,
                   err |-> NoErr])

RECURSIVE SchedLoop(_, _, _, _, _, _)
SchedLoop(st, data, k, fault, t, fk) ==
  IF k > Len(data) \/ st.err # NoErr THEN st
  ELSE Bind(SchedRecord(st, data[k], fault = [at |-> "insert", k |-> k], t, fk),
            LAMBDA st1 : SchedLoop(st1, data, k + 1, fault, t, fk))

\* fetchAndStore after its fetch: [S, error, newReadings, opened, loopDone];
\* opened: getDb() was reached and opened the store
fetchAndStore(S, resp, fault, t, fk) ==
  IF resp.kind \in {"neterr", "http", "badjson"}
    THEN [S |-> S, error |-> RespError(resp.kind), newReadings |-> 0,
          opened |-> FALSE, loopDone |-> FALSE]
  ELSE IF fault.at = "getDb"
    THEN [S |-> S, error |-> "SqliteError", newReadings |-> 0,
          opened |-> FALSE, loopDone |-> FALSE]
  ELSE IF resp.kind = "nonarray"
    THEN [S |-> S, error |-> "TypeError", newReadings |-> 0,
          opened |-> TRUE, loopDone |-> FALSE]
  ELSE Bind(SchedLoop([S |-> S, newReadings |-> 0, updatedLocations |-> 0,
                       err |-> NoErr], resp.data, 1, fault, t, fk),
            LAMBDA st :
              [S |-> st.S,
               error |-> IF st.err # NoErr THEN st.err
                         ELSE IF fault.at = "stats" THEN "SqliteError" ELSE NoErr,
               newReadings |-> st.newReadings, opened |-> TRUE,
               loopDone |-> st.err = NoErr])

\* an error that leaves fetchAndStore instead of being caught
RethrowAll(error) == error # NoErr

\* whether an error raised in fetchAndStore leaves it: its try block spans
\* the whole cycle and its catch block only prints the message
Rethrown(error) == FALSE

(***************************************************************************)
(* State.                                                                  *)
(*   db            the module-level handle of db.js: TRUE when open        *)
(*   handles       the Database connections the process has constructed    *)
(*                 and not closed                                          *)
(*   foreign_keys  whether the SQLite build enforces FOREIGN KEY clauses   *)
(*                 (the source sets no pragma for it)                      *)
(*   locations, readings, snapshots, fetch_log   the four tables           *)
(*   now           the clock                                               *)
(*   sched         the scheduler: "off", "initial" (main awaits the first  *)
(*                 fetchAndStore), "running" (the interval timer is set    *)
(*                 and the SIGINT handler is registered), "exited" (the    *)
(*                 handler called process.exit), "killed" (SIGINT ended    *)
(*                 the process that had no handler yet) or "crashed" (a    *)
(*                 rejection nothing handles ended the process)            *)
(*   pending       fetchAndStore invocations awaiting their fetch          *)
(*   loop          per fetchAndStore invocation whose fetch has settled    *)
(*                 and whose for loop is under way: the batch, the index   *)
(*                 k of the record it processes next (0: no loop), the     *)
(*                 readings it has counted, and whether it has handed the  *)
(*                 thread back to the event loop                           *)
(*   cyc           the most recent ingestion cycle: its number, its kind,  *)
(*                 the response it fetched, the number of cycles so far in *)
(*                 which a storage call threw, whether it ended without    *)
(*                 an error, and the number of new readings it reported    *)
(*                 (-1: none reported), the error it ended with, whether   *)
(*                 the write of its failure entry threw, and the status    *)
(*                 the one-shot process exited with (-1: no exit), and the *)
(*                 storage call that threw in it                           *)
(*   op            the most recent direct call of a db.js function: its    *)
(*                 number, the function, its argument, the error thrown,   *)
(*                 the value returned; for saveSnapshot the time of the    *)
(*                 call                                                    *)
(***************************************************************************)
VARIABLES db, handles, foreign_keys, locations, readings, snapshots,
          fetch_log, now, sched, pending, loop, cyc, op

vars == <<db, handles, foreign_keys, locations, readings, snapshots,
          fetch_log, now, sched, pending, loop, cyc, op>>

handle == <<db, handles>>

tables == <<locations, readings, snapshots, fetch_log>>

Store == [locations |-> locations, readings |-> readings,
          snapshots |-> snapshots, fetch_log |-> fetch_log]

Commit(S) ==
  /\ locations' = S.locations
  /\ readings' = S.readings
  /\ snapshots' = S.snapshots
  /\ fetch_log' = S.fetch_log

NoCycle == [n |-> 0, kind |-> "none", resp |-> [kind |-> "none", data |-> <<>>],
            faults |-> 0, success |-> FALSE, reported |-> -1,
            error |-> NoErr, logFailed |-> FALSE, exit |-> -1,
            fault |-> NoFault]

\* the fetchAndStore invocations that can be under way together
Calls == 1..MaxOverlap

NoLoop == [k |-> 0, data |-> <<>>, newReadings |-> 0, yielded |-> FALSE]

NoLoops == [j \in Calls |-> NoLoop]

NoOp == [n |-> 0, name |-> "none", err |-> NoErr]

Init ==
  /\ db = FALSE
  /\ handles = 0
  /\ foreign_keys \in BOOLEAN
  /\ locations = {}
  /\ readings = <<>>
  /\ snapshots = <<>>
  /\ fetch_log = <<>>
  /\ now = 0
  /\ sched = "off"
  /\ pending = 0
  /\ loop = NoLoops
  /\ cyc = NoCycle
  /\ op = NoOp

\* the handle after getDb() and after closeDb()
OpenDb ==
  /\ db' = getDb(db, handles).db
  /\ handles' = getDb(db, handles).handles

ShutDb ==
  /\ db' = closeDb(db, handles).db
  /\ handles' = closeDb(db, handles).handles

\* the tables after the getDb() of a call: initSchema runs when it opens
\* the handle
AfterGetDb == IF getDb(db, handles).opened THEN initSchema(Store) ELSE Store

\* a behaviour holds at most MaxSteps cycles and direct calls
Budget == cyc.n + op.n < MaxSteps

\* and up to MaxCycles cycles when no storage call throws in them and it
\* holds no direct call
CycleBudget(fault) ==
  \/ Budget
  \/ fault = NoFault /\ cyc.faults = 0 /\ op.n = 0 /\ cyc.n < MaxCycles

\* time passes
Tick ==
  /\ now < MaxClock
  /\ now' = now + 1
  /\ UNCHANGED <<handle, foreign_keys, loop, tables, sched, pending, cyc, op>>

(***************************************************************************)
(* Direct calls of the exported functions of db.js.  Each opens the handle *)
(* through getDb() before it touches a table.                              *)
(***************************************************************************)
GetDb ==
  /\ Budget
  /\ OpenDb
  /\ op' = [n |-> op.n + 1, name |-> "getDb", err |-> NoErr,
            ret |-> getDb(db, handles).opened]
  /\ Commit(AfterGetDb)
  /\ UNCHANGED <<foreign_keys, loop, now, sched, pending, cyc>>

CloseDb ==
  /\ Budget
  /\ ShutDb
  /\ op' = [n |-> op.n + 1, name |-> "closeDb", err |-> NoErr,
            ret |-> closeDb(db, handles).closed]
  /\ UNCHANGED <<foreign_keys, loop, tables, now, sched, pending, cyc>>

UpsertLocation(location) ==
  LET r == upsertLocation(Store, location, now)
  IN  /\ Budget
      /\ Commit(r.S)
      /\ OpenDb
      /\ op' = [n |-> op.n + 1, name |-> "upsertLocation", arg |-> location,
                err |-> r.err]
      /\ UNCHANGED <<foreign_keys, loop, now, sched, pending, cyc>>

InsertReading(location) ==
  LET r == insertReading(Store, location, now, foreign_keys)
  IN  /\ Budget
      /\ Commit(r.S)
      /\ OpenDb
      /\ op' = [n |-> op.n + 1, name |-> "insertReading", arg |-> location,
                err |-> r.err, ret |-> r.ret]
      /\ UNCHANGED <<foreign_keys, loop, now, sched, pending, cyc>>

SaveSnapshot(data) ==
  /\ Budget
  /\ Commit(saveSnapshot(Store, data, now).S)
  /\ OpenDb
  /\ op' = [n |-> op.n + 1, name |-> "saveSnapshot", at |-> now, err |-> NoErr]
  /\ UNCHANGED <<foreign_keys, loop, now, sched, pending, cyc>>

ShouldSaveSnapshot ==
  /\ Budget
  /\ OpenDb
  /\ op' = [n |-> op.n + 1, name |-> "shouldSaveSnapshot", err |-> NoErr,
            ret |-> shouldSaveSnapshot(Store, now)]
  /\ UNCHANGED <<foreign_keys, loop, tables, now, sched, pending, cyc>>

LogFetch(success, locationsFetched, newReadings, errorMsg) ==
  /\ Budget
  /\ Commit(logFetch(Store, success, locationsFetched, newReadings, errorMsg, now).S)
  /\ OpenDb
  /\ op' = [n |-> op.n + 1, name |-> "logFetch", err |-> NoErr]
  /\ UNCHANGED <<foreign_keys, loop, now, sched, pending, cyc>>

GetReadingStats ==
  /\ Budget
  /\ OpenDb
  /\ op' = [n |-> op.n + 1, name |-> "getReadingStats", err |-> NoErr,
            ret |-> getReadingStats(AfterGetDb)]
  /\ Commit(AfterGetDb)
  /\ UNCHANGED <<foreign_keys, loop, now, sched, pending, cyc>>

\* the other reporting queries: getDb(), then a SELECT
Select(name, arg, results) ==
  /\ OpenDb
  /\ \E ret \in results :
        op' = [n |-> op.n + 1, name |-> name, arg |-> arg, err |-> NoErr,
               ret |-> ret]
  /\ Commit(AfterGetDb)
  /\ UNCHANGED <<foreign_keys, loop, now, sched, pending, cyc>>

Query(name, arg, results) == Budget /\ Select(name, arg, results)

GetLatestReadings ==
  Query("getLatestReadings", <<>>, getLatestReadings(AfterGetDb))

GetOptimalTimes(locationName, limit) ==
  Query("getOptimalTimes", [locationName |-> locationName, limit |-> limit],
        getOptimalTimes(AfterGetDb, locationName, limit))

GetHourlyAverages(locationName) ==
  Query("getHourlyAverages", locationName,
        getHourlyAverages(AfterGetDb, locationName))

GetRecentReadings(locationId, hours) ==
  Query("getRecentReadings", <<locationId, hours>>,
        getRecentReadings(AfterGetDb, locationId, hours, now))

GetDailyStats(days) ==
  Query("getDailyStats", days, getDailyStats(AfterGetDb, days, now))

GetDataSize == Query("getDataSize", <<>>, {getDataSize(AfterGetDb)})

\* VACUUM rebuilds the file and leaves every row as it is
Vacuum ==
  /\ Budget
  /\ OpenDb
  /\ op' = [n |-> op.n + 1, name |-> "vacuum", err |-> NoErr]
  /\ UNCHANGED <<foreign_keys, loop, tables, now, sched, pending, cyc>>

(***************************************************************************)
(* Ingestion cycles.                                                       *)
(***************************************************************************)
\* a run of fetchOccupancy in which the storage call `fault` throws: the
\* try block or else the catch block calls getDb() and the finally block
\* closeDb()
FetchOccupancyFault(resp, fault, logFail) ==
  LET r == fetchOccupancy(Store, resp, fault, logFail, now, foreign_keys)
  IN  /\ CycleBudget(fault)
      /\ Commit(r.S)
      /\ LET g == IF fault.at = "getDb" THEN [db |-> db, handles |-> handles]
                  ELSE getDb(db, handles)
             c == closeDb(g.db, g.handles)
         IN  db' = c.db /\ handles' = c.handles
      /\ cyc' = [n |-> cyc.n + 1, kind |-> "fetchOccupancy", resp |-> resp,
                 faults |-> cyc.faults + (IF fault = NoFault THEN 0 ELSE 1),
                 success |-> r.success,
                 reported |-> IF r.success THEN r.newReadings ELSE -1,
                 error |-> r.error, logFailed |-> r.logFailed,
                 exit |-> exitStatus(r), fault |-> fault]
      /\ UNCHANGED <<foreign_keys, loop, now, sched, pending, op>>

\* a run of fetchOccupancy in which no storage call throws
FetchOccupancy(resp) == FetchOccupancyFault(resp, NoFault, FALSE)

\* the process of fetch.js ends (a crash, a kill) inside the loop of
\* fetchOccupancy while it processes record k: records 1..k-1 are stored,
\* each statement in its own transaction, and (mid) the upsert of record k
\* too; no catch, no finally and no fetch-log write runs
KillOccupancy(resp, k, mid) ==
  /\ Budget
  /\ resp.kind = "array"
  /\ k \in 1..Len(resp.data)
  /\ LET st == StoreLoop([S |-> Store, newReadings |-> 0, updatedLocations |-> 0,
                          err |-> NoErr], SubSeq(resp.data, 1, k - 1), 1,
                         NoFault, now, foreign_keys)
         u == upsertLocation(st.S, resp.data[k], now)
     IN  /\ st.err = NoErr
         /\ mid => u.err = NoErr
         /\ Commit(IF mid THEN u.S ELSE st.S)
  /\ ShutDb
  /\ cyc' = [n |-> cyc.n + 1, kind |-> "killed", resp |-> resp,
             faults |-> cyc.faults + 1, success |-> FALSE, reported |-> -1,
             error |-> NoErr, logFailed |-> FALSE, exit |-> -1,
             fault |-> [at |-> "kill", k |-> k]]
  /\ UNCHANGED <<foreign_keys, loop, now, sched, pending, op>>

\* main() of the scheduler calls fetchAndStore, which awaits its fetch
SchedMain ==
  /\ sched = "off"
  /\ sched' = "initial"
  /\ pending' = 1
  /\ UNCHANGED <<handle, foreign_keys, loop, tables, now, cyc, op>>

\* the interval timer fires: its callback calls fetchAndStore, whatever the
\* number of earlier calls that still await their fetch (below cap here)
SchedTickUpTo(cap) ==
  /\ sched = "running"
  /\ pending < cap
  /\ pending' = pending + 1
  /\ UNCHANGED <<handle, foreign_keys, loop, tables, now, sched, cyc, op>>

SchedTick == SchedTickUpTo(MaxPending)

\* the fetch of a pending fetchAndStore settles and the rest of it runs,
\* with the storage call `fault` throwing
FetchAndStoreFault(resp, fault) ==
  LET r == fetchAndStore(Store, resp, fault, now, foreign_keys)
  IN  /\ pending > 0
      /\ CycleBudget(fault)
      /\ Commit(r.S)
      /\ IF r.opened THEN OpenDb ELSE UNCHANGED handle
      /\ pending' = IF Rethrown(r.error) THEN 0 ELSE pending - 1
      /\ sched' = IF Rethrown(r.error) THEN "crashed"
                  ELSE IF sched = "initial" THEN "running" ELSE sched
      /\ cyc' = [n |-> cyc.n + 1, kind |-> "fetchAndStore", resp |-> resp,
                 faults |-> cyc.faults + (IF fault = NoFault THEN 0 ELSE 1),
                 success |-> r.error = NoErr,
                 reported |-> IF r.error = NoErr THEN r.newReadings ELSE -1,
                 error |-> r.error, logFailed |-> FALSE, exit |-> -1,
                 fault |-> fault]
      /\ UNCHANGED <<foreign_keys, loop, now, op>>

\* the same with no storage call throwing
FetchAndStore(resp) == FetchAndStoreFault(resp, NoFault)

\* SIGINT while the handler is registered: it runs between two turns of the
\* event loop, closes the handle and exits; the calls awaiting their fetch
\* end with the process
Sigint ==
  /\ sched = "running"
  /\ ShutDb
  /\ sched' = "exited"
  /\ pending' = 0
  /\ UNCHANGED <<foreign_keys, loop, tables, now, cyc, op>>

\* a loop body that awaits after each record
YieldsEachRecord(location) == TRUE

\* whether the body of the for loop of fetchAndStore hands the thread back
\* to the event loop after a record: it holds no await
Yields(location) == FALSE

\* the event loop starts a callback (a timer, a settled promise, a signal
\* handler) only when no other holds the thread
Dispatch == \A j \in Calls : loop[j].k > 0 => loop[j].yielded

\* invocation j may go on: no other holds the thread
Turn(j) == \A i \in Calls \ {j} : loop[i].k > 0 => loop[i].yielded

TimerFires == Dispatch /\ SchedTickUpTo(MaxOverlap)

Interrupt == Dispatch /\ Sigint

\* the fetch of a pending fetchAndStore settles: on an error, or on a
\* payload without records, the rest of the function runs at once; on a
\* batch it calls getDb() and enters its loop
FetchSettles(resp) ==
  LET r == fetchAndStore(Store, resp, NoFault, now, foreign_keys)
      busy == {j \in Calls : loop[j].k > 0}
  IN  /\ Dispatch
      /\ pending > 0
      /\ busy # Calls
      /\ cyc.n + Cardinality(busy) < MaxCycles
      /\ pending' = pending - 1
      /\ IF resp.kind = "array" /\ resp.data # <<>>
           THEN /\ OpenDb
                /\ loop' = [loop EXCEPT
                             ![CHOOSE j \in Calls \ busy :
                                 \A i \in Calls \ busy : j <= i] =
                               [k |-> 1, data |-> resp.data, newReadings |-> 0,
                                yielded |-> FALSE]]
                /\ UNCHANGED <<tables, sched, cyc>>
           ELSE /\ Commit(r.S)
                /\ IF r.opened THEN OpenDb ELSE UNCHANGED handle
                /\ sched' = IF sched = "initial" THEN "running" ELSE sched
                /\ cyc' = [n |-> cyc.n + 1, kind |-> "fetchAndStore",
                           resp |-> resp, faults |-> cyc.faults,
                           success |-> r.error = NoErr,
                           reported |-> IF r.error = NoErr THEN r.newReadings
                                        ELSE -1,
                           error |-> r.error, logFailed |-> FALSE, exit |-> -1,
                           fault |-> NoFault]
                /\ UNCHANGED loop
      /\ UNCHANGED <<foreign_keys, now, op>>

\* invocation j runs the body of its loop for record k; after the last
\* record, or on an error, the rest of the function runs in the same turn
StoreStep(j) ==
  LET l == loop[j]
      st == SchedRecord([S |-> Store, newReadings |-> l.newReadings,
                         updatedLocations |-> 0, err |-> NoErr],
                        l.data[l.k], FALSE, now, foreign_keys)
      last == st.err # NoErr \/ l.k = Len(l.data)
  IN  /\ l.k > 0
      /\ Turn(j)
      /\ sched \in {"initial", "running"}
      /\ Commit(st.S)
      /\ OpenDb
      /\ IF last
           THEN /\ loop' = [loop EXCEPT ![j] = NoLoop]
                /\ sched' = IF sched = "initial" THEN "running" ELSE sched
                /\ cyc' = [n |-> cyc.n + 1, kind |-> "fetchAndStore",
                           resp |-> [kind |-> "array", data |-> l.data],
                           faults |-> cyc.faults, success |-> st.err = NoErr,
                           reported |-> IF st.err = NoErr THEN st.newReadings
                                        ELSE -1,
                           error |-> st.err, logFailed |-> FALSE, exit |-> -1,
                           fault |-> NoFault]
           ELSE /\ loop' = [loop EXCEPT ![j] =
                               [l EXCEPT !.k = l.k + 1,
                                         !.newReadings = st.newReadings,
                                         !.yielded = Yields(l.data[l.k])]]
                /\ UNCHANGED <<sched, cyc>>
      /\ UNCHANGED <<foreign_keys, now, pending, op>>

\* SIGINT while main still awaits the initial fetchAndStore: no handler is
\* registered and the signal ends the process where it stands, during the
\* fetch (k = -1) or in the loop after k records of the payload are stored
SigintInitial(resp, k) ==
  /\ sched = "initial"
  /\ sched' = "killed"
  /\ pending' = 0
  /\ IF k < 0
       THEN UNCHANGED <<handle, tables>>
       ELSE /\ resp.kind = "array"
            /\ k <= Len(resp.data)
            /\ OpenDb
            /\ Commit(SchedLoop([S |-> Store, newReadings |-> 0,
                                 updatedLocations |-> 0, err |-> NoErr],
                                SubSeq(resp.data, 1, k), 1, NoFault, now,
                                foreign_keys).S)
  /\ UNCHANGED <<foreign_keys, loop, now, cyc, op>>

Next ==
  \/ Tick
  \/ GetDb
  \/ CloseDb
  \/ \E location \in Records : UpsertLocation(location)
  \/ \E location \in Records : InsertReading(location)
  \/ \E data \in Batches : SaveSnapshot(data)
  \/ ShouldSaveSnapshot
  \/ \E success \in BOOLEAN, n \in 0..NumLocs :
        LogFetch(success, n, n, IF success THEN NoErr ELSE "fetch failed")
  \/ GetReadingStats
  \/ Vacuum
  \/ \E resp \in Resps : FetchOccupancy(resp)
  \/ SchedMain
  \/ SchedTick
  \/ \E resp \in Resps : FetchAndStore(resp)

Spec == Init /\ [][Next]_vars

(***************************************************************************)
(* The programs alone: the one-shot fetch and the scheduler, with no       *)
(* other caller of db.js.                                                  *)
(***************************************************************************)
NextCycle ==
  \/ Tick
  \/ \E resp \in Resps : FetchOccupancy(resp)
  \/ SchedMain
  \/ SchedTick
  \/ \E resp \in Resps : FetchAndStore(resp)

SpecCycle == Init /\ [][NextCycle]_vars

(***************************************************************************)
(* The one-shot fetch with storage calls that may throw.                   *)
(***************************************************************************)
NextFault ==
  \/ \E resp \in Resps : FetchOccupancy(resp)
  \/ \E resp \in Resps, fault \in Faults \ {NoFault}, logFail \in BOOLEAN :
        FetchOccupancyFault(resp, fault, logFail)

SpecFault == Init /\ [][NextFault]_vars

(***************************************************************************)
(* The one-shot fetch whose loop is cut short at record k: by an INSERT    *)
(* that throws, by a record that upsertLocation rejects, or by the end of  *)
(* the process.                                                            *)
(***************************************************************************)
NextCrash ==
  \/ \E resp \in Resps : FetchOccupancy(resp)
  \/ \E resp \in Resps, k \in 1..NumLocs, logFail \in BOOLEAN :
        FetchOccupancyFault(resp, [at |-> "insert", k |-> k], logFail)
  \/ \E resp \in Resps, k \in 1..NumLocs, mid \in BOOLEAN :
        KillOccupancy(resp, k, mid)

SpecCrash == Init /\ [][NextCrash]_vars

(***************************************************************************)
(* The scheduler process alone, from its start to its end: storage calls   *)
(* that may throw, timer ticks that do not wait for the cycle before them, *)
(* and the interrupt.  SpecSchedFair adds that the armed interval timer    *)
(* keeps firing.                                                           *)
(***************************************************************************)
SchedResps ==
  {[kind |-> c, data |-> <<>>] : c \in {"neterr", "http", "badjson", "nonarray"}}
  \cup {[kind |-> "array", data |-> Batch(m, 1, 1, bad)] :
           m \in 0..NumLocs, bad \in 0..NumLocs}

NextSched ==
  \/ SchedMain
  \/ SchedTickUpTo(MaxOverlap)
  \/ \E resp \in SchedResps : FetchAndStore(resp)
  \/ \E resp \in SchedResps, fault \in SchedFaults \ {NoFault} :
        FetchAndStoreFault(resp, fault)
  \/ Sigint
  \/ \E resp \in SchedResps, k \in -1..NumLocs : SigintInitial(resp, k)

SpecSched == Init /\ [][NextSched]_vars

SpecSchedFair == SpecSched /\ WF_vars(SchedTickUpTo(MaxOverlap))

(***************************************************************************)
(* The reports: one-shot cycles fill the store, and the reporting queries  *)
(* read it, on a handle that is closed (after a cycle, at the start) or    *)
(* open (after another query).                                             *)
(***************************************************************************)
Patterns == {NoName, <<"A">>, <<"b">>}

NextReport ==
  \/ Tick
  \/ \E resp \in Resps : FetchOccupancy(resp)
  \/ GetLatestReadings
  \/ \E locationName \in Patterns, limit \in {0, 1, DefaultLimit} :
        GetOptimalTimes(locationName, limit)
  \/ \E locationName \in Patterns : GetHourlyAverages(locationName)
  \/ GetReadingStats
  \/ \E locationId \in Locs, hours \in 0..1 : GetRecentReadings(locationId, hours)
  \/ \E days \in 0..1 : GetDailyStats(days)
  \/ GetDataSize

SpecReport == Init /\ [][NextReport]_vars

(***************************************************************************)
(* The scheduler process turn by turn of the event loop: the loop of       *)
(* fetchAndStore runs record by record.                                    *)
(***************************************************************************)
NextLoop ==
  \/ SchedMain
  \/ TimerFires
  \/ \E resp \in SchedResps : FetchSettles(resp)
  \/ \E j \in Calls : StoreStep(j)
  \/ Interrupt

SpecLoop == Init /\ [][NextLoop]_vars

(***************************************************************************)
(* A history of one-shot cycles, up to MaxCycles of them, and then one     *)
(* query over what they stored.                                            *)
(***************************************************************************)
LatestAfter ==
  /\ op.n = 0
  /\ Select("getLatestReadings", <<>>, getLatestReadings(AfterGetDb))

HourlyAfter(locationName) ==
  /\ op.n = 0
  /\ Select("getHourlyAverages", locationName,
            getHourlyAverages(AfterGetDb, locationName))

NextHistory ==
  \/ \E resp \in Resps : FetchOccupancy(resp)
  \/ LatestAfter
  \/ \E locationName \in Patterns : HourlyAfter(locationName)

SpecHistory == Init /\ [][NextHistory]_vars

(***************************************************************************)
(* getOptimalTimes as a function of the store.  The store is the one the   *)
(* loop of fetchOccupancy leaves after it is given, for each of three      *)
(* (location, hour) cells, `open` open readings, the first `ones` of them  *)
(* at 1 percent and the others at 0, and `closed` closed readings at       *)
(* 1 percent, each at a source timestamp of its own.  One call of          *)
(* getOptimalTimes follows.                                                *)
(***************************************************************************)
Shapes ==
  {sh \in [open : 0..MaxSamples, ones : 0..1, closed : 0..1] :
     sh.ones <= sh.open /\ sh.open + sh.closed <= SlotsPerHour}

\* the location and the first source timestamp of each cell
Cells == << [l |-> 1, base |-> 0], [l |-> 2, base |-> 0],
            [l |-> 1, base |-> SlotsPerHour] >>

CellRecords(cell, sh) ==
  [k \in 1..(sh.open + sh.closed) |->
     OptRecord(cell.l, cell.base + k - 1,
               IF k <= sh.ones \/ k > sh.open THEN 1 ELSE 0, k > sh.open)]

OptimalStore(shapes) ==
  StoreLoop([S |-> [locations |-> {}, readings |-> <<>>, snapshots |-> <<>>,
                    fetch_log |-> <<>>],
             newReadings |-> 0, updatedLocations |-> 0, err |-> NoErr],
            CellRecords(Cells[1], shapes[1]) \o CellRecords(Cells[2], shapes[2])
              \o CellRecords(Cells[3], shapes[3]),
            1, NoFault, 0, TRUE).S

InitOptimal ==
  /\ db = FALSE
  /\ handles = 0
  /\ foreign_keys = TRUE
  /\ \E shapes \in [1..Len(Cells) -> Shapes] :
        /\ locations = OptimalStore(shapes).locations
        /\ readings = OptimalStore(shapes).readings
  /\ snapshots = <<>>
  /\ fetch_log = <<>>
  /\ now = 0
  /\ sched = "off"
  /\ pending = 0
  /\ loop = NoLoops
  /\ cyc = NoCycle
  /\ op = NoOp

NextOptimal ==
  /\ op.n = 0
  /\ \E locationName \in Patterns, limit \in (0..2) \cup {DefaultLimit} :
        GetOptimalTimes(locationName, limit)

SpecOptimal == InitOptimal /\ [][NextOptimal]_vars

(***************************************************************************)
(* getHourlyAverages as a function of the store: the same stores, a        *)
(* location that may since have taken the display name of the other, and   *)
(* the query.                                                              *)
(***************************************************************************)
RenameRecords == {MkRecord(l, 1, 1) : l \in Locs}

NextAverages ==
  \/ \E location \in RenameRecords : UpsertLocation(location)
  \/ \E locationName \in Patterns : GetHourlyAverages(locationName)

SpecAverages == InitOptimal /\ [][NextAverages]_vars

(***************************************************************************)
(* The snapshot cadence over a longer stretch of time.                     *)
(***************************************************************************)
Elapse ==
  /\ now < Horizon
  /\ now' = now + 1
  /\ UNCHANGED <<handle, foreign_keys, loop, tables, sched, pending, cyc, op>>

NextCadence ==
  \/ Elapse
  \/ \E data \in Batches : SaveSnapshot(data)
  \/ ShouldSaveSnapshot

SpecCadence == Init /\ [][NextCadence]_vars

\* one-shot cycles over the same stretch, each of one location or rejected
HourlyResps ==
  {resp \in Resps :
     \/ resp.kind = "http"
     \/ resp.kind = "array" /\ resp.data \in {Batch(1, 1, ts, 0) : ts \in 1..MaxApiTs}}

NextHourly ==
  \/ Elapse
  \/ \E resp \in HourlyResps : FetchOccupancy(resp)

SpecHourly == Init /\ [][NextHourly]_vars

(***************************************************************************)
(* Properties.                                                             *)
(***************************************************************************)
IsPrefix(s, t) == Len(s) <= Len(t) /\ SubSeq(t, 1, Len(s)) = s

\* the records of a batch all carry a LocationName
WellFormed(data) == \A k \in 1..Len(data) : "LocationName" \in DOMAIN data[k]

\* every key of the batch is stored
Ingested(data) ==
  \A k \in 1..Len(data) :
     HasReading(Store, data[k].LocationId, data[k].LastUpdatedDateAndTime)

\* a step that is an ingestion cycle, of either coordinator
CycleStep == cyc'.n = cyc.n + 1

\* a step that is a direct call of the db.js function `name`
CallStep(name) == op'.n = op.n + 1 /\ op'.name = name

\* C1: in every reachable state no two stored Reading rows share the pair
\* (location id, source-reported timestamp).
UniqueReadingKey ==
  \A i, j \in 1..Len(readings) :
     (/\ readings[i].location_id = readings[j].location_id
      /\ readings[i].api_ts = readings[j].api_ts) => i = j

\* insertReading has just been called with a stored key and another count
UniqueReadingKeyWitness ==
  /\ op.name = "insertReading"
  /\ \E i \in 1..Len(readings) :
        /\ readings[i].location_id = op.arg.LocationId
        /\ readings[i].api_ts = op.arg.LastUpdatedDateAndTime
        /\ readings[i].last_count # op.arg.LastCount

\* C2: a cycle on a batch whose keys are all stored (as they are after a
\* cycle on the same batch, which the first conjunct states) leaves the
\* Reading rows as they are, and raises no error when the records are
\* well-formed; the one-shot coordinator then reports 0 new readings.
ReingestIdempotent ==
  /\ [](cyc.success /\ cyc.resp.kind = "array" => Ingested(cyc.resp.data))
  /\ [][CycleStep /\ cyc'.resp.kind = "array" /\ Ingested(cyc'.resp.data) =>
          /\ readings' = readings
          /\ WellFormed(cyc'.resp.data) => cyc'.success
          /\ cyc'.success /\ cyc'.kind = "fetchOccupancy" => cyc'.reported = 0]_vars

\* the second of two cycles has ingested the two-record batch of the first
ReingestWitness ==
  /\ cyc.n = 2
  /\ cyc.success
  /\ cyc.resp.kind = "array"
  /\ Len(cyc.resp.data) = 2
  /\ Len(readings) = 2
  /\ Len(fetch_log) >= 1
  /\ fetch_log[1].new_readings = 2
  /\ \A k \in 1..2 : \E i \in 1..2 :
        /\ readings[i].location_id = cyc.resp.data[k].LocationId
        /\ readings[i].api_ts = cyc.resp.data[k].LastUpdatedDateAndTime
        /\ readings[i].last_count = cyc.resp.data[k].LastCount

\* C3: the new-readings count a cycle reports equals the number of Reading
\* rows the cycle inserted.
ReportedEqualsInserted ==
  [][CycleStep /\ cyc'.reported >= 0 =>
        cyc'.reported = Len(readings') - Len(readings)]_vars

Given(location) ==
  [location_name |-> Trim(location.LocationName),
   total_capacity |-> location.TotalCapacity,
   facility_id |-> location.FacilityId,
   facility_name |-> location.FacilityName,
   min_capacity_range |-> location.MinCapacityRange,
   max_capacity_range |-> location.MaxCapacityRange,
   min_color |-> location.MinColor,
   max_color |-> location.MaxColor]

Mutable(row) == [f \in DOMAIN Given(MkRecord(1, 1, 1)) |-> row[f]]

\* the Location rows of `location` after the step are the one row that holds
\* what the record gives
LastWriteWins(location) ==
  {Mutable(row) : row \in {x \in locations' : x.location_id = location.LocationId}}
    = {Given(location)}

\* C5: there is one Location row for each location id upserted, holding
\* in every mutable field the value of the most recent upsert for the id
\* (the name trimmed); an upsert of a record that carries a name on an
\* existing id does not fail and leaves the number of Location rows as it
\* is; no Location row is ever removed.
LocationLastWriteWins ==
  /\ [](\A r1, r2 \in locations : r1.location_id = r2.location_id => r1 = r2)
  /\ [][LocationIds(Store) \subseteq {row.location_id : row \in locations'}]_vars
  /\ [][CallStep("upsertLocation") /\ "LocationName" \in DOMAIN op'.arg =>
          /\ op'.err = NoErr
          /\ LastWriteWins(op'.arg)
          /\ op'.arg.LocationId \in LocationIds(Store) =>
               Cardinality(locations') = Cardinality(locations)]_vars
  /\ [][CycleStep /\ cyc'.resp.kind = "array" /\ cyc'.success =>
          \A k \in 1..Len(cyc'.resp.data) : LastWriteWins(cyc'.resp.data[k])]_vars

\* upsertLocation has overwritten a stored row with another name
LocationLastWriteWinsWitness ==
  /\ op.name = "upsertLocation"
  /\ op.err = NoErr
  /\ cyc.n = 1
  /\ cyc.success
  /\ \E k \in 1..Len(cyc.resp.data) :
        /\ cyc.resp.data[k].LocationId = op.arg.LocationId
        /\ Trim(cyc.resp.data[k].LocationName) # Trim(op.arg.LocationName)
        /\ op.arg.LocationName # Trim(op.arg.LocationName)

\* the internal ids of a table increase along it
IdsAscend(tbl) == \A i, j \in 1..Len(tbl) : i < j => tbl[i].id < tbl[j].id

\* C6: the Reading, Snapshot and fetch-log tables are append-only: over
\* every step of every operation each row present before the step is
\* present and unchanged after it, and the rows stay in the order of their
\* internal ids.
AppendOnly ==
  /\ [][/\ IsPrefix(readings, readings')
        /\ IsPrefix(snapshots, snapshots')
        /\ IsPrefix(fetch_log, fetch_log')]_vars
  /\ [](IdsAscend(readings) /\ IdsAscend(snapshots) /\ IdsAscend(fetch_log))

\* a second snapshot has just been saved after the first
AppendOnlyWitness ==
  /\ op.name = "saveSnapshot"
  /\ op.n = 2
  /\ Len(snapshots) = 2
  /\ snapshots[1].data # snapshots[2].data

\* p = round(num / den) for den > 0: the integer nearest to the quotient,
\* the upper one of two equally near
IsRound(p, num, den) ==
  /\ 2 * den * p <= 2 * num + den
  /\ 2 * num + den < 2 * den * (p + 1)

\* C7: every stored Reading row has pct = round(count / capacity * 100) of
\* its own count and capacity, the quotient taken exactly, when the capacity
\* is positive, and pct = 0 otherwise; the value is not clamped at 100.
PctOfOwnRow ==
  \A i \in 1..Len(readings) :
     IF readings[i].capacity > 0
       THEN IsRound(readings[i].pct, readings[i].last_count * 100,
                    readings[i].capacity)
       ELSE readings[i].pct = 0

\* C8: shouldSaveSnapshot returns true when no Snapshot row exists; called
\* after a saveSnapshot while less than the interval has elapsed on the
\* clock it returns false; once more than the interval has elapsed it
\* returns true.
SnapshotCadence ==
  [][CallStep("shouldSaveSnapshot") =>
       /\ snapshots = <<>> => op'.ret = TRUE
       /\ op.name = "saveSnapshot" /\ now - op.at < HourMs => op'.ret = FALSE
       /\ op.name = "saveSnapshot" /\ now - op.at > HourMs => op'.ret = TRUE]_vars

\* C9: in a cycle upsertLocation precedes insertReading for each record:
\* every Reading row's location id is the id of a Location row in every
\* state the coordinators reach, also after a cycle that aborts part-way,
\* and no cycle on well-formed records fails on the reference.
ReadingHasLocation ==
  /\ \A i \in 1..Len(readings) : readings[i].location_id \in LocationIds(Store)
  /\ cyc.n > 0 /\ cyc.resp.kind = "array" /\ WellFormed(cyc.resp.data)
       => cyc.success

\* with foreign keys enforced, a cycle has aborted at its second record
\* after storing the first, and a later cycle has run to its end
ReadingHasLocationWitness ==
  /\ foreign_keys
  /\ cyc.n = 2
  /\ cyc.success
  /\ Len(cyc.resp.data) = 2
  /\ Len(fetch_log) >= 1
  /\ fetch_log[1].success = 0
  /\ Len(readings) = 3

\* the fetch-log entries a step appends
Appended == SubSeq(fetch_log', Len(fetch_log) + 1, Len(fetch_log'))

\* C10: a one-shot ingestion cycle appends at most one fetch-log entry,
\* whose success flag is the outcome the cycle returns, and which for a
\* success records the batch length and the rows the cycle inserted; no
\* cycle leaves both a success entry and a failure entry.
OneLogEntryPerCycle ==
  [][CycleStep /\ cyc'.kind = "fetchOccupancy" =>
       /\ Len(Appended) <= 1
       /\ \A i \in 1..Len(Appended) :
             /\ Appended[i].success = (IF cyc'.success THEN 1 ELSE 0)
             /\ cyc'.success =>
                  /\ Appended[i].locations_fetched = Len(cyc'.resp.data)
                  /\ Appended[i].new_readings = Len(readings') - Len(readings)]_vars

\* C11: when a step of a one-shot cycle raises an error, the cycle appends a
\* failure entry (success 0, 0 locations, 0 new readings, the message of the
\* error); when that write fails too no failure entry is left and the error
\* returned is still the one of the cycle, never the one of the log write;
\* the process exits with status 1 on a failure and 0 on a success.
FailureBestEffort ==
  [][CycleStep /\ cyc'.kind = "fetchOccupancy" =>
       /\ cyc'.exit = (IF cyc'.success THEN 0 ELSE 1)
       /\ cyc'.success => cyc'.error = NoErr
       /\ ~cyc'.success =>
            /\ cyc'.error \notin {NoErr, LogError}
            /\ cyc'.resp.kind # "array" =>
                 cyc'.error = RespError(cyc'.resp.kind)
            /\ IF cyc'.logFailed
                 THEN \A i \in 1..Len(Appended) : Appended[i].success = 1
                 ELSE /\ Appended # <<>>
                      /\ LET e == Appended[Len(Appended)]
                         IN  /\ e.success = 0
                             /\ e.locations_fetched = 0
                             /\ e.new_readings = 0
                             /\ e.error_msg = cyc'.error]_vars

\* a cycle failed on a rejected fetch, its failure entry could not be
\* written, and the process exited with status 1 on the fetch error
FailureBestEffortWitness ==
  /\ cyc.kind = "fetchOccupancy"
  /\ ~cyc.success
  /\ cyc.logFailed
  /\ cyc.exit = 1
  /\ cyc.error = "fetch failed"
  /\ fetch_log = <<>>

\* the payload of a response is an empty array or is not an array
InvalidPayload(resp) ==
  resp.kind = "nonarray" \/ (resp.kind = "array" /\ resp.data = <<>>)

\* C12: a cycle whose payload is an empty array or is not an array fails:
\* it ends with an error, writes no Location, Reading or Snapshot row and
\* appends no success entry.
InvalidPayloadRejected ==
  [][CycleStep /\ InvalidPayload(cyc'.resp) =>
       /\ ~cyc'.success
       /\ UNCHANGED <<locations, readings, snapshots>>
       /\ \A i \in 1..Len(Appended) : Appended[i].success = 0]_vars

\* C15: a scheduler cycle that fails (rejected fetch, non-2xx status,
\* malformed payload) appends one fetch-log entry with success 0.
SchedFailureLogged ==
  [][CycleStep /\ cyc'.kind = "fetchAndStore" /\ ~cyc'.success =>
       /\ Len(Appended) = 1
       /\ Appended[1].success = 0]_vars

\* C13: at most one scheduler cycle is in flight at any time: no timer tick
\* starts a cycle while an earlier one still awaits its fetch.
AtMostOneInFlight == pending <= 1

\* the most recent scheduler cycle ended with an error
SchedCycleFailed == cyc.kind = "fetchAndStore" /\ cyc.n > 0 /\ ~cyc.success

\* C14: no failed cycle ends the scheduler: when a cycle ends with an error
\* (rejected fetch, non-2xx status, malformed payload, storage call that
\* throws) the interval timer is armed afterwards, and from then on timer
\* ticks keep starting cycles unless the process is interrupted.
SchedulerSurvives ==
  /\ [][CycleStep /\ cyc'.kind = "fetchAndStore" /\ ~cyc'.success =>
          sched' = "running" /\ pending' < MaxOverlap]_vars
  /\ [](sched # "crashed")
  /\ (SchedCycleFailed /\ sched = "running")
        ~> (pending = MaxOverlap \/ sched = "exited")

\* the initial cycle failed on a storage call that threw, and a timer tick
\* has started the next cycle
SchedulerSurvivesWitness ==
  /\ SchedCycleFailed
  /\ cyc.n = 1
  /\ cyc.faults = 1
  /\ cyc.resp.kind = "array"
  /\ sched = "running"
  /\ pending = 1

\* C16: when the scheduler process has ended on an interrupt, the storage
\* handle is closed, at whatever point the interrupt arrived.
ClosedBeforeExit == sched \in {"exited", "killed"} => ~db

\* C17: the storage handle is a singleton: the process never holds more
\* than one open connection, and the module-level handle is set exactly
\* when one is open; getDb constructs a connection only when none is open
\* and changes nothing otherwise; closeDb on a closed handle changes
\* nothing; neither touches a row, and a storage call made while the
\* handle is closed opens it and works on the rows committed before.
SingletonHandle ==
  /\ [](handles <= 1 /\ (db <=> handles = 1))
  /\ [][/\ CallStep("getDb") =>
             /\ db' /\ op'.ret = ~db
             /\ UNCHANGED tables
             /\ db => UNCHANGED handle
        /\ CallStep("closeDb") =>
             /\ ~db' /\ op'.ret = db
             /\ UNCHANGED tables
             /\ ~db => UNCHANGED handle
        /\ op'.n = op.n + 1 /\ op'.name # "closeDb" /\ ~db =>
             /\ db' /\ handles' = 1
             /\ op'.name = "getReadingStats" =>
                  op'.ret = getReadingStats(Store)
             /\ op'.name = "insertReading" /\ op'.err = NoErr =>
                  op'.ret = ~HasReading(Store, op'.arg.LocationId,
                                        op'.arg.LastUpdatedDateAndTime)]_vars

\* a one-shot cycle stored readings and closed the handle, and the
\* statistics query that followed re-opened it and counted them
SingletonHandleWitness ==
  /\ cyc.kind = "fetchOccupancy"
  /\ cyc.success
  /\ op.n = 1
  /\ op.name = "getReadingStats"
  /\ op.ret.total_readings = NumLocs
  /\ db
  /\ handles = 1

\* the reporting queries
Reports ==
  {"getLatestReadings", "getOptimalTimes", "getHourlyAverages",
   "getReadingStats", "getRecentReadings", "getDailyStats", "getDataSize"}

\* C18: no reporting query changes a row of the Location, Reading, Snapshot
\* or fetch-log table, whether the handle is open or the query opens it.
ReportsReadOnly ==
  [][op'.n = op.n + 1 /\ op'.name \in Reports => UNCHANGED tables /\ db']_vars

\* a query ran on a store that holds rows while the handle was closed, and
\* opened it
ReportsReadOnlyWitness ==
  /\ cyc.n = 1
  /\ cyc.success
  /\ op.n = 1
  /\ op.name = "getLatestReadings"
  /\ Len(op.ret) = NumLocs
  /\ Len(readings) = NumLocs
  /\ db

\* the (location id, day of week, hour) groups there can be
Slots == Locs \X (0..(DaysPerWeek - 1)) \X (0..(HoursPerDay - 1))

\* the open Reading rows of a group
OpenOf(g) ==
  {i \in 1..Len(readings) :
     /\ readings[i].location_id = g[1]
     /\ readings[i].is_closed = 0
     /\ DayOfWeek(readings[i].api_ts) = g[2]
     /\ HourOf(readings[i].api_ts) = g[3]}

\* the groups of at least 2 open readings whose location passes the filter
Qualifying(locationName) ==
  {g \in Slots :
     /\ Cardinality(OpenOf(g)) >= 2
     /\ \E l \in locations :
           /\ l.location_id = g[1]
           /\ locationName = NoName \/ Like(l.location_name, locationName)}

\* an output row that stands for the group g
RowOf(row, g) ==
  /\ row.day_of_week = g[2]
  /\ row.hour = g[3]
  /\ row.samples = Cardinality(OpenOf(g))
  /\ \E l \in locations :
        l.location_id = g[1] /\ l.location_name = row.location_name

\* C19: every row getOptimalTimes returns stands for a (location id, day of
\* week, hour) group and counts its non-closed readings, which are at least
\* 2: a group of 1 sample is never in the output; when the groups of 2 or
\* more samples are no more than the limit, each of them is in the output.
SampleFloor ==
  [][CallStep("getOptimalTimes") =>
       LET out == op'.ret
           Q == Qualifying(op'.arg.locationName)
       IN  /\ \A k \in 1..Len(out) :
                 out[k].samples >= 2 /\ \E g \in Q : RowOf(out[k], g)
           /\ Cardinality(Q) <= op'.arg.limit =>
                 /\ Len(out) = Cardinality(Q)
                 /\ \A g \in Q : \E k \in 1..Len(out) : RowOf(out[k], g)]_vars

\* the output is one group of 2 open readings next to a closed one, while
\* another group holds 1 sample only and is left out
SampleFloorWitness ==
  /\ op.name = "getOptimalTimes"
  /\ op.arg = [locationName |-> NoName, limit |-> DefaultLimit]
  /\ Len(op.ret) = 1
  /\ op.ret[1].samples = 2
  /\ \E g \in Slots : Cardinality(OpenOf(g)) = 1
  /\ \E g \in Slots :
        /\ RowOf(op.ret[1], g)
        /\ \E i \in 1..Len(readings) :
              readings[i].location_id = g[1] /\ readings[i].is_closed = 1

\* the sum of the percentages of the open readings of a group
PctSum(g) == SumOver(OpenOf(g), [i \in OpenOf(g) |-> readings[i].pct])

\* the average percentage of g1 is below that of g2
Quieter(g1, g2) ==
  PctSum(g1) * Cardinality(OpenOf(g2)) < PctSum(g2) * Cardinality(OpenOf(g1))

\* the average percentage of a group rounded to one decimal, in tenths
Avg1(g) == RoundAvg1(PctSum(g), Cardinality(OpenOf(g)))

\* the groups of Q that no row of out stands for
LeftOut(Q, out) == {g \in Q : \A k \in 1..Len(out) : ~RowOf(out[k], g)}

\* C20 as stated: the output of getOptimalTimes is sorted by the average
\* percentage of the groups ascending, has at most limit rows, and no
\* group left out has a strictly lower average than a group in the output.
QuietestFirst ==
  [][CallStep("getOptimalTimes") =>
       LET out == op'.ret
           Q == Qualifying(op'.arg.locationName)
       IN  /\ Len(out) <= op'.arg.limit
           /\ \A j, k \in 1..Len(out) :
                 j < k => \A gj, gk \in Q :
                             RowOf(out[j], gj) /\ RowOf(out[k], gk)
                               => ~Quieter(gk, gj)
           /\ \A g \in LeftOut(Q, out) :
                 \A k \in 1..Len(out) :
                    \A gk \in Q : RowOf(out[k], gk) => ~Quieter(g, gk)]_vars

\* C20: the output of getOptimalTimes is sorted ascending by avg_pct, the
\* average percentage rounded to one decimal, has at most limit rows for a
\* limit that is not negative, and no group left out has a rounded average
\* strictly lower than that of a group in the output.
QuietestFirstRounded ==
  [][CallStep("getOptimalTimes") =>
       LET out == op'.ret
           Q == Qualifying(op'.arg.locationName)
       IN  /\ Len(out) <= op'.arg.limit
           /\ Len(out) = IF Cardinality(Q) < op'.arg.limit
                           THEN Cardinality(Q) ELSE op'.arg.limit
           /\ \A k \in 1..Len(out) :
                 \A g \in Q : RowOf(out[k], g) => out[k].avg_pct = Avg1(g)
           /\ \A j, k \in 1..Len(out) :
                 j < k => out[j].avg_pct <= out[k].avg_pct
           /\ \A g \in LeftOut(Q, out) :
                 \A k \in 1..Len(out) : Avg1(g) >= out[k].avg_pct]_vars

\* three groups of distinct rounded averages, cut to the two quietest
QuietestFirstRoundedWitness ==
  /\ op.name = "getOptimalTimes"
  /\ op.arg = [locationName |-> NoName, limit |-> 2]
  /\ Cardinality(Qualifying(NoName)) = 3
  /\ Len(op.ret) = 2
  /\ op.ret[1].avg_pct = 0
  /\ op.ret[2].avg_pct = 3
  /\ \E g \in Qualifying(NoName) : Avg1(g) = 5

\* the Reading row of greatest id of a location, as a set (empty: none)
LatestOf(l) ==
  {i \in 1..Len(readings) :
     /\ readings[i].location_id = l
     /\ \A j \in 1..Len(readings) :
           readings[j].location_id = l => readings[j].id <= readings[i].id}

\* C21: getLatestReadings returns one row for each location that has a
\* Reading row and none for another; the row carries the values of the
\* location's Reading row of greatest id; the rows come by descending
\* percentage.  After a cycle that inserted a reading for every record of
\* its batch, the rows of the batch's locations carry the batch's values.
LatestPerLocation ==
  [][CallStep("getLatestReadings") =>
       LET out == op'.ret
       IN  /\ \A l \in Locs :
                 Cardinality({k \in 1..Len(out) : out[k].location_id = l})
                   = (IF LatestOf(l) = {} THEN 0 ELSE 1)
           /\ \A k \in 1..Len(out) :
                 \E i \in LatestOf(out[k].location_id) :
                    /\ out[k].count = readings[i].last_count
                    /\ out[k].capacity = readings[i].capacity
                    /\ out[k].percentage = readings[i].pct
                    /\ out[k].is_closed = readings[i].is_closed
                    /\ out[k].api_timestamp = readings[i].api_ts
           /\ \A j, k \in 1..Len(out) :
                 j < k => out[j].percentage >= out[k].percentage
           /\ cyc.success /\ cyc.reported = Len(cyc.resp.data) =>
                 \A r \in 1..Len(cyc.resp.data) :
                    \E k \in 1..Len(out) :
                       /\ out[k].location_id = cyc.resp.data[r].LocationId
                       /\ out[k].count = cyc.resp.data[r].LastCount
                       /\ out[k].api_timestamp =
                            cyc.resp.data[r].LastUpdatedDateAndTime]_vars

\* two batches for the same two locations were ingested, the second at a
\* new source timestamp, and the query returned the values of the second
LatestPerLocationWitness ==
  /\ op.name = "getLatestReadings"
  /\ cyc.n = 2
  /\ cyc.reported = NumLocs
  /\ Len(readings) = 2 * NumLocs
  /\ Len(op.ret) = NumLocs
  /\ \A k \in 1..Len(op.ret) :
        /\ op.ret[k].api_timestamp = cyc.resp.data[1].LastUpdatedDateAndTime
        /\ \E i \in 1..Len(readings) :
              /\ readings[i].location_id = op.ret[k].location_id
              /\ readings[i].last_count # op.ret[k].count


\* C22: a one-shot cycle whose ingestion succeeded (a non-empty array of
\* well-formed records, every storage call before the fetch-log write passing) and
\* whose write of the success entry fails still returns success.
LogFailureSwallowed ==
  [][(/\ CycleStep
      /\ cyc'.kind = "fetchOccupancy"
      /\ cyc'.fault.at = "log"
      /\ cyc'.resp.kind = "array"
      /\ cyc'.resp.data # <<>>
      /\ WellFormed(cyc'.resp.data))
       => cyc'.success /\ cyc'.exit = 0]_vars


\* the records at which the loop of a cycle stops short: the record without
\* a name, the record whose INSERT throws, the record during which the
\* process ends
StopsAt(c) ==
  {k \in 1..Len(c.resp.data) :
     \/ "LocationName" \notin DOMAIN c.resp.data[k]
     \/ c.fault \in {[at |-> "insert", k |-> k], [at |-> "kill", k |-> k]}}

\* the first of them
FailedAt(c) == CHOOSE k \in StopsAt(c) : \A j \in StopsAt(c) : k <= j

\* C23: when a one-shot cycle fails or its process ends while it processes
\* record k of a batch, the Location row and the Reading row of each of the
\* records 1..k-1 are stored after the step (the Reading row with the
\* record's count when its key was new), and every row stored before the
\* cycle is still there: nothing is rolled back.
PrefixDurable ==
  [][CycleStep /\ cyc'.resp.kind = "array" /\ StopsAt(cyc') # {} =>
       /\ ~cyc'.success
       /\ IsPrefix(readings, readings')
       /\ \A l \in LocationIds(Store) : l \in {x.location_id : x \in locations'}
       /\ \A j \in 1..(FailedAt(cyc') - 1) :
             LET rec == cyc'.resp.data[j]
             IN  /\ \E x \in locations' : x.location_id = rec.LocationId
                 /\ \E i \in 1..Len(readings') :
                       /\ readings'[i].location_id = rec.LocationId
                       /\ readings'[i].api_ts = rec.LastUpdatedDateAndTime
                       /\ (~HasReading(Store, rec.LocationId,
                                        rec.LastUpdatedDateAndTime)
                             => readings'[i].last_count = rec.LastCount)]_vars

\* the first cycle on an empty store stopped at record 2 and the rows of
\* record 1 are the whole store
PrefixDurableWitness ==
  /\ cyc.n = 1
  /\ cyc.resp.kind = "array"
  /\ StopsAt(cyc) = {2}
  /\ Len(readings) = 1
  /\ readings[1].location_id = cyc.resp.data[1].LocationId
  /\ {x.location_id : x \in locations} = {cyc.resp.data[1].LocationId}


\* C24: any two consecutive Snapshot rows have ingestion timestamps more
\* than one interval apart.
SnapshotsApart ==
  \A i \in 1..(Len(snapshots) - 1) :
     ParseTs(snapshots[i + 1].ts) - ParseTs(snapshots[i].ts) > HourMs


\* the (display name, day of week, hour) groups
NameSlots ==
  {l.location_name : l \in locations}
    \X (0..(DaysPerWeek - 1)) \X (0..(HoursPerDay - 1))

\* the non-closed Reading rows of such a group
OpenNamed(g) ==
  {i \in 1..Len(readings) :
     /\ readings[i].is_closed = 0
     /\ DayOfWeek(readings[i].api_ts) = g[2]
     /\ HourOf(readings[i].api_ts) = g[3]
     /\ \E l \in locations :
           l.location_id = readings[i].location_id /\ l.location_name = g[1]}

\* the groups getHourlyAverages is to return under a filter
Averaged(locationName) ==
  {g \in NameSlots :
     /\ OpenNamed(g) # {}
     /\ locationName = NoName \/ Like(g[1], locationName)}

\* an output row that carries the aggregates of the group g
AveragesOf(row, g) ==
  LET G == OpenNamed(g)
      n == Cardinality(G)
      sum == SumOver(G, [i \in G |-> readings[i].pct])
  IN  /\ row.location_name = g[1]
      /\ row.day_of_week = g[2]
      /\ row.hour = g[3]
      /\ row.samples = n
      /\ \E i \in G : row.min_pct = readings[i].pct
      /\ \E i \in G : row.max_pct = readings[i].pct
      /\ \A i \in G : row.min_pct <= readings[i].pct /\ readings[i].pct <= row.max_pct
      /\ 2 * n * row.avg_pct <= (20 * sum) + n
      /\ (20 * sum) + n < 2 * n * (row.avg_pct + 1)

InitialCycleEnds == (sched = "initial") ~> (sched # "initial")


\* C27: the storage phases of scheduler cycles never interleave: at most one
\* invocation is inside its loop at a time, and while an invocation is
\* between its first upsertLocation and its last insertReading every step
\* that is not its own leaves the tables, the handle and the process as
\* they are: no storage call of another cycle and no closeDb of the
\* interrupt handler runs in between.
NoInterleaving ==
  /\ [](Cardinality({j \in Calls : loop[j].k > 0}) <= 1)
  /\ [][\A j \in Calls :
          loop[j].k > 1 /\ loop'[j] = loop[j] =>
            /\ UNCHANGED tables
            /\ UNCHANGED handle
            /\ sched' = sched]_vars

\* two cycles awaited their fetch together; the first is now between its
\* first and its second record while the other still awaits
NoInterleavingWitness ==
  /\ sched = "running"
  /\ pending >= 1
  /\ \E j \in Calls : loop[j].k = 2 /\ Len(loop[j].data) = 2
  /\ Len(readings) >= 1


\* C28: the number of Reading rows equals the sum of the new-readings
\* values over the fetch-log entries.
LogAccountsForReadings ==
  Len(readings) =
    SumOver(1..Len(fetch_log),
            [i \in 1..Len(fetch_log) |-> fetch_log[i].new_readings])

=============================================================================
